---- MODULE Spec2Model ----
(***************************************************************************)
(* A model of the presence monitor: the entry/backoff regime of            *)
(* running_loop, the readiness-resolution routine check_online_in_offline, *)
(* the steady-state loop real_staff and the interrupt flow of staff        *)
(* (src/src/main.rs), on top of the Session operations of SocketConn and   *)
(* the companion operations of VLCConn (src/src/socketlib.rs).  The peers  *)
(* (the console, the companion, the presence web page) are nondeterministic*)
(* inputs: every request draws its outcome from a small set.               *)
(***************************************************************************)
EXTENDS Integers, Sequences, FiniteSets, TLC

\* ------------------------------------------------------------------ bounds
\* the attempt counter is a u64; the model stops escalating at this value
MaxTimes == 4
\* longest client list the console answers with
MaxClients == 2
\* Session requests issued on one connection
MaxRequests == 2
\* data chunks the peer sends before the status line of one answer
MaxChunks == 2
\* longest string given to escape
MaxLen == 3
\* most lines of a reply given to the decoders
MaxLines == 2
\* most segments of one data line
MaxSegs == 2

\* ------------------------------------------------------------- data model
\* the status code of "not connected"
NOT_CONNECTED == 1794

\* codes a failed Session operation can carry: the intercepted status code,
\* another status code of the console, and the code QueryError gives to
\* every anyhow error (transport, "READ NONE DATA", record parse)
ErrCodes == {NOT_CONNECTED, 512, -2}

\* the watched persistent ids (Config::monitor_id)
MonitorIds == {42}
ClientIds == 1..2
DbIds == {1, 42}
ClientRecords == [clid : ClientIds, dbid : DbIds]
ClientLists == UNION {[1..n -> ClientRecords] : n \in 1..MaxClients}

\* the channel the configuration names, and the channels the console lists
ChannelName == "Lobby"
ChannelRecords == [cid : 1..2, name : {"Lobby", "AFK"}]
ChannelLists == UNION {[1..n -> ChannelRecords] : n \in 1..2}

\* QueryResult<T>: Ok, Err(QueryError{code}) or the panic of
\* query_operation_non_error on a reply without a data line
Ok == [kind |-> "ok", code |-> 0]
Err(c) == [kind |-> "err", code |-> c]
Panicked == [kind |-> "panic", code |-> 0]
BasicReplies == {Ok} \cup {Err(c) : c \in ErrCodes}
QueryReplies == BasicReplies \cup {Panicked}

\* a reply text: its lines without their terminators; the terminator of
\* its lines ("lfcr" for the console's "\n\r", "lf" for "\n" and "\r\n");
\* whether it starts with a "\r" that the read before left behind (lead);
\* whether the "\r" of its last terminator is part of it (tail)
Text(body, term, lead, tail) ==
  [body |-> body, term |-> term, lead |-> lead, tail |-> tail]
\* the text of no line
NoText == Text(<<>>, "lf", FALSE, FALSE)

\* monitor.interval (minutes) is read only when the web check is enabled
Intervals == {1, 2}
Configs == {c \in [web : BOOLEAN, need_exit : BOOLEAN, password : BOOLEAN,
                   interval : Intervals] : c.web \/ c.interval = 1}

NoErr == [at |-> "none", code |-> 0]

VARIABLES
  pc,         \* position of the main flow
  cfg,        \* the configuration read at start
  times,      \* running_loop: the attempt counter
  ret,        \* the outcome of the last check_online_in_offline
  wait,       \* seconds of the backoff wait in progress
  cancel,     \* the one-shot cancellation value has been sent
  sigint,     \* interrupts handled by the signal flow of staff
  my,         \* client id of the last who_am_i whose value is kept
  clients,    \* the client list held by the code at this point
  database_id,\* real_staff: own persistent id
  status,     \* real_staff: the companion's playing flag of this tick
  move_cid,   \* switch_channel_by_name: the channel to move into
  sent,       \* commands written since the last loop head
  inflight,   \* the command of this position is written and not answered
  whoamiLog,  \* outcomes of the who_am_i calls at the head of the entry loop
  page,       \* what the presence page said in this run of the routine
  scen,       \* history: how far the present-then-absent scenario has got
  err         \* where and with which code the run failed

\* one console connection seen at the level of reads and writes
VARIABLES
  io_pc,      \* "idle", "read" (inside delay_read/read_data) or "stopped"
  io_req,     \* Session requests issued so far on this connection
  unread,     \* requests written whose status line has not been read
  wire,       \* chunks the peer has sent and the client has not read
  closed,     \* "open", or how the peer closed: "fin" or "rst"
  read_ret,   \* read_data: the local ret
  delay_s,    \* delay_read: the local s
  io_res,     \* what the last request returned to its caller
  peer_todo,  \* requests the peer has received and not finished answering
  peer_chunks,\* data chunks the peer has sent for Head(peer_todo)
  spun        \* zero-byte reads of the request in progress: 0, odd 1, even 2

\* the pure functions of the Session codec, applied to one input
VARIABLES
  str,        \* the string given to escape
  reply,      \* the reply content given to the decoders
  qmy,        \* the client id given to check_self_duplicate
  qclients,   \* the client list given to check_self_duplicate
  op,         \* the function applied, "none" before
  out         \* its result

mvars == <<pc, cfg, times, ret, wait, cancel, sigint, my, clients,
           database_id, status, move_cid, sent, inflight, whoamiLog, page,
           scen, err>>
iovars == <<io_pc, io_req, unread, wire, closed, read_ret, delay_s, io_res, peer_todo,
            peer_chunks, spun>>
codecvars == <<str, reply, qmy, qclients, op, out>>
vars == <<mvars, iovars, codecvars>>

Terminal == {"done", "failed", "panicked", "exit137"}

\* ------------------------------------------------------- pure functions
RECURSIVE find_database_id(_, _, _, _)
find_database_id(cl, clid, i, acc) ==
  IF i > Len(cl) THEN acc
  ELSE find_database_id(cl, clid, i + 1,
                        IF cl[i].clid = clid THEN cl[i].dbid ELSE acc)

\* the loop "for client in &clients { if client.client_id() == my.client_id()"
self_database_id(cl, clid) == find_database_id(cl, clid, 1, 0)

count_database_id(cl, id) == Cardinality({i \in DOMAIN cl : cl[i].dbid = id})

\* clients.iter().any(|client| monitor.contains(&client.client_database_id()))
cared_user(cl, monitor) == \E i \in DOMAIN cl : cl[i].dbid \in monitor

\* the filter(..).count() > 1 of real_staff and check_self_duplicate
self_duplicate_mut_any(cl, id) == count_database_id(cl, id) > 0

self_duplicate(cl, id) == count_database_id(cl, id) > 1

\* check_self_duplicate on the who_am_i value clid and the client list cl:
\* "none" stands for Err(database_id_error)
check_self_duplicate(cl, clid) ==
  IF self_database_id(cl, clid) = 0 THEN "none"
  ELSE IF self_duplicate(cl, self_database_id(cl, clid)) THEN "true"
  ELSE "false"

RECURSIVE first_channel(_, _, _)
first_channel(chs, name, i) ==
  IF i > Len(chs) THEN 0
  ELSE IF chs[i].name = name THEN chs[i].cid
  ELSE first_channel(chs, name, i + 1)

\* get_duration; -1 stands for the unreachable!() panic
get_duration_mut_uncapped(config, t, r) ==
  IF r = "Online" THEN config.interval * 60
  ELSE IF r \in {"TargetDetected", "DuplicateClient"}
       THEN IF t = 1 THEN 5 * 60
            ELSE IF t = 2 THEN 30 * 60
            ELSE IF t >= 3 THEN (t - 2) * 60 * 60
            ELSE -1
  ELSE -1

get_duration(config, t, r) ==
  IF r = "Online" THEN config.interval * 60
  ELSE IF r \in {"TargetDetected", "DuplicateClient"}
       THEN IF t = 1 THEN 5 * 60
            ELSE IF t = 2 THEN 30 * 60
            ELSE IF t >= 3 THEN 60 * 60
            ELSE -1
  ELSE -1

\* ---------------------------------------------------------------- helpers
\* the main flow moves on inside the same function
Goto(p) == /\ pc' = p
           /\ UNCHANGED <<times, ret, wait, err>>

\* an Err propagated by ? up to running_loop's caller
Fail(at, code) == /\ pc' = "failed"
                  /\ err' = [at |-> at, code |-> code]
                  /\ UNCHANGED <<times, ret, wait>>

Panic(at) == /\ pc' = "panicked"
             /\ err' = [at |-> at, code |-> 0]
             /\ UNCHANGED <<times, ret, wait>>

\* "?" on the reply r of a Session operation issued at position at
Try(r, at, p) ==
  IF r.kind = "ok" THEN Goto(p)
  ELSE IF r.kind = "panic" THEN Panic(at)
  ELSE Fail(at, r.code)

\* first step of check_online_in_offline
coo_entry(config) == IF config.web THEN "coo_web" ELSE "coo_connect"

\* the branch of the entry loop on the outcome of who_am_i
entry_branch_mut_any(r, config) ==
  IF r.kind = "ok" THEN "rs_dbid_whoami"
  ELSE IF r.kind = "panic" THEN "panicked"
  ELSE coo_entry(config)

entry_branch_mut_abort(r, config) ==
  IF r.kind = "ok" THEN "rs_dbid_whoami"
  ELSE IF r.kind = "panic" THEN "panicked"
  ELSE "failed"

entry_branch_mut_resolve(r, config) ==
  IF r.kind = "panic" THEN "panicked"
  ELSE IF r.kind = "ok" \/ r.code = NOT_CONNECTED THEN coo_entry(config)
  ELSE "failed"

entry_branch(r, config) ==
  IF r.kind = "ok" THEN "rs_dbid_whoami"
  ELSE IF r.kind = "panic" THEN "panicked"
  ELSE IF r.code = NOT_CONNECTED THEN coo_entry(config)
  ELSE "failed"

\* times += 1
next_times_mut_keep(t) == t

next_times_mut_reset(t) == IF t >= 2 THEN 0 ELSE t + 1

next_times(t) == t + 1

\* the status the routine reports when the presence page says "online"
web_online_status_mut_target == "TargetDetected"

web_online_status == "Online"

\* the end of the backoff wait: timeout(..., &mut receiver).await.is_ok()
backoff_next_mut_ignore(c) == "rl_whoami"

backoff_next(c) == IF c THEN "done" ELSE "rl_whoami"

\* if status == cared_user { if status { pause } else { play } }
compare_command_mut_absent(playing, present) ==
  IF playing = present THEN (IF playing THEN "pause" ELSE "play")
  ELSE IF ~present THEN "play"
  ELSE "none"

compare_command_mut_differ(playing, present) ==
  IF playing # present THEN (IF playing THEN "pause" ELSE "play")
  ELSE "none"

compare_command(playing, present) ==
  IF playing = present THEN (IF playing THEN "pause" ELSE "play")
  ELSE "none"

\* loop head of real_staff: recv.try_recv().is_ok()
loop_head_next(c) == IF c THEN "done" ELSE "rs_clients"

\* the tick sleep: timeout(5 ms, &mut recv).await.is_ok()
tick_sleep_next_mut_ignore(c) == "rs_head"

tick_sleep_next(c) == IF c THEN "done" ELSE "rs_head"

\* history of the scenario "watched id present with the companion paused,
\* then absent with the companion reporting the state it was last put in":
\* the tick just decided saw present/playing and wrote cmd
scen_next(sc, present, playing, cmd) ==
  IF present
  THEN IF playing THEN "off"
       ELSE IF cmd = "none" THEN "present_paused" ELSE "broken"
  ELSE IF sc = "present_paused"
       THEN IF playing THEN "off"
            ELSE IF cmd = "play" THEN "played" ELSE "broken"
  ELSE IF sc = "played"
       THEN IF ~playing THEN "off"
            ELSE IF cmd = "none" THEN "played" ELSE "broken"
  ELSE sc

\* running_loop on the outcome r of check_online_in_offline
Return(r) ==
  /\ ret' = r
  /\ IF r = "NotOnline"
     THEN /\ pc' = "rs_dbid_whoami"
          /\ UNCHANGED <<times, wait, err>>
     ELSE /\ times < MaxTimes
          /\ times' = next_times(times)
          /\ LET d == get_duration(cfg, times', r)
             IN IF d < 0
                THEN /\ pc' = "panicked"
                     /\ err' = [at |-> "get_duration", code |-> 0]
                     /\ wait' = 0
                ELSE /\ pc' = "rl_backoff"
                     /\ wait' = d
                     /\ UNCHANGED err

\* ------------------------------------------------------------------- Init
NoRes == [req |-> 0, kind |-> "none", from |-> {}, text |-> <<>>]

\* the connection before its first request
IoStart ==
  /\ io_pc = "idle"
  /\ io_req = 0
  /\ unread = {}
  /\ wire = <<>>
  /\ closed = "open"
  /\ read_ret = <<>>
  /\ delay_s = <<>>
  /\ io_res = NoRes
  /\ peer_todo = <<>>
  /\ peer_chunks = 0
  /\ spun = 0

\* no codec function applied
CodecStart ==
  /\ str = <<>>
  /\ reply = NoText
  /\ qmy = 0
  /\ qclients = <<>>
  /\ op = "none"
  /\ out = <<>>

\* the main flow at the first statement of running_loop; config is what the
\* configuration file holds
MonitorStart(config) ==
  /\ pc = "rl_config"
  /\ cfg = config
  /\ times = 0
  /\ ret = "none"
  /\ wait = 0
  /\ cancel = FALSE
  /\ sigint = 0
  /\ my = 0
  /\ clients = <<>>
  /\ database_id = 0
  /\ status = FALSE
  /\ move_cid = 0
  /\ sent = {}
  /\ inflight = FALSE
  /\ whoamiLog = <<>>
  /\ page = "none"
  /\ scen = "off"
  /\ err = NoErr

Init ==
  /\ \E config \in Configs : MonitorStart(config)
  /\ IoStart
  /\ CodecStart

\* ------------------------------------------------------ requests in flight
\* the command the main flow writes at its position: "none" where its next
\* step writes nothing to the console, the page or the companion's status
Command ==
  CASE pc = "rl_login" -> "auth"
    [] pc \in {"rl_whoami", "coo_wait", "coo_whoami", "coo_dup_whoami",
               "coo_switch_whoami", "coo_pw_whoami", "rs_dbid_whoami"}
         -> "whoami"
    [] pc = "coo_web" -> "http"
    [] pc = "coo_connect" -> "connect"
    [] pc \in {"coo_clients", "coo_dup_clients", "coo_early",
               "rs_dbid_clients", "rs_clients"} -> "clientlist"
    [] pc \in {"coo_dup_disconnect", "coo_td_disconnect"} -> "disconnect"
    [] pc = "coo_switch_channels" -> "channellist"
    [] pc = "coo_switch_move" -> "clientmove"
    [] pc = "coo_pw_edit" -> "channeledit"
    [] pc = "rs_status" -> "status"
    [] pc = "rs_exit_check" ->
         IF cared_user(clients, MonitorIds) /\ cfg.need_exit
         THEN "disconnect" ELSE "none"
    [] pc = "rs_dup_check" ->
         IF self_duplicate(clients, database_id) THEN "disconnect" ELSE "none"
    [] OTHER -> "none"

\* write_data succeeds: the command of this position is on its way and the
\* main flow awaits the answer
WriteData ==
  /\ Command # "none"
  /\ ~inflight
  /\ inflight' = TRUE
  /\ sent' = (IF pc = "rl_whoami" THEN {} ELSE sent) \cup {Command}
  /\ UNCHANGED <<pc, cfg, times, ret, wait, cancel, sigint, my, clients,
                 database_id, status, move_cid, whoamiLog, page, scen, err>>
  /\ UNCHANGED <<iovars, codecvars>>

\* the outcomes a Session request can have at this point: any of S once the
\* command is written, and the anyhow error of write_data (code -2) when the
\* write itself fails
Answers(S) == IF inflight THEN S ELSE {Err(-2)}

\* ----------------------------------------- running_loop: before the loop
\* Config::try_from(path)
RlConfig ==
  /\ pc = "rl_config"
  /\ \E ok \in BOOLEAN :
       IF ok THEN Goto("rl_connect") ELSE Fail("rl_config", 0)
  /\ UNCHANGED <<cfg, cancel, sigint, my, clients, database_id, status,
                 move_cid, sent, inflight, whoamiLog, page, scen>>
  /\ UNCHANGED <<iovars, codecvars>>

\* SocketConn::connect: TcpStream::connect, sleep(10 ms), one read_data whose
\* error ends the run and whose None is only logged
RlConnect ==
  /\ pc = "rl_connect"
  /\ \E r \in {"refused", "read_error", "greeting", "silent"} :
       IF r \in {"refused", "read_error"} THEN Fail("rl_connect", 0)
       ELSE Goto("rl_login")
  /\ UNCHANGED <<cfg, cancel, sigint, my, clients, database_id, status,
                 move_cid, sent, inflight, whoamiLog, page, scen>>
  /\ UNCHANGED <<iovars, codecvars>>

\* conn.login(configure.api_key()).await?
RlLogin ==
  /\ pc = "rl_login"
  /\ inflight' = FALSE
  /\ \E r \in Answers(BasicReplies) : Try(r, "rl_login", "vlc_connect")
  /\ UNCHANGED <<cfg, cancel, sigint, my, clients, database_id, status,
                 move_cid, sent, whoamiLog, page, scen>>
  /\ UNCHANGED <<iovars, codecvars>>

\* VLCConn::connect: TcpStream::connect
VlcConnect ==
  /\ pc = "vlc_connect"
  /\ \E ok \in BOOLEAN :
       IF ok THEN Goto("vlc_greeting") ELSE Fail("vlc_connect", 0)
  /\ UNCHANGED <<cfg, cancel, sigint, my, clients, database_id, status,
                 move_cid, sent, inflight, whoamiLog, page, scen>>
  /\ UNCHANGED <<iovars, codecvars>>

\* VLCConn::connect: sleep(10 ms), read_data()?.unwrap(), and the password
\* written when the content asks for it
VlcGreeting ==
  /\ pc = "vlc_greeting"
  /\ \E r \in {"read_error", "silent", "password", "other"} :
       CASE r = "read_error" -> Fail("vlc_greeting", 0) /\ UNCHANGED sent
         [] r = "silent" -> Panic("vlc_greeting") /\ UNCHANGED sent
         [] r = "other" -> Goto("vlc_verify") /\ UNCHANGED sent
         [] r = "password" ->
              \E written \in BOOLEAN :
                IF written
                THEN Goto("vlc_verify") /\ sent' = sent \cup {"password"}
                ELSE Fail("vlc_password", 0) /\ UNCHANGED sent
  /\ UNCHANGED <<cfg, cancel, sigint, my, clients, database_id, status,
                 move_cid, inflight, whoamiLog, page, scen>>
  /\ UNCHANGED <<iovars, codecvars>>

\* VLCConn::connect: read_data()?.unwrap() and the "Welcome, Master" check
VlcVerify ==
  /\ pc = "vlc_verify"
  /\ \E r \in {"read_error", "silent", "welcome", "other"} :
       CASE r = "read_error" -> Fail("vlc_verify", 0)
         [] r = "silent" -> Panic("vlc_verify")
         [] r = "welcome" -> Goto("rl_whoami")
         [] r = "other" -> Fail("vlc_wrong_password", 0)
  /\ UNCHANGED <<cfg, cancel, sigint, my, clients, database_id, status,
                 move_cid, sent, inflight, whoamiLog, page, scen>>
  /\ UNCHANGED <<iovars, codecvars>>

\* ------------------------------------------------ running_loop: entry loop
\* while let Err(e) = conn.who_am_i().await { ... }
RlWhoAmI ==
  /\ pc = "rl_whoami"
  /\ inflight' = FALSE
  /\ sent' = IF inflight THEN sent ELSE {}
  /\ \E r \in Answers(QueryReplies) :
       /\ whoamiLog' = Append(whoamiLog, r)
       /\ pc' = entry_branch(r, cfg)
       /\ err' = IF entry_branch(r, cfg) \in {"failed", "panicked"}
                 THEN [at |-> "rl_whoami", code |-> r.code] ELSE err
  /\ UNCHANGED <<cfg, times, ret, wait, cancel, sigint, my, clients,
                 database_id, status, move_cid, page, scen>>
  /\ UNCHANGED <<iovars, codecvars>>

\* the backoff wait ends because the cancellation value is there
BackoffCancelled ==
  /\ pc = "rl_backoff"
  /\ cancel
  /\ pc' = backoff_next(cancel)
  /\ UNCHANGED <<cfg, times, ret, wait, cancel, sigint, my, clients,
                 database_id, status, move_cid, sent, inflight, whoamiLog,
                 page, scen, err>>
  /\ UNCHANGED <<iovars, codecvars>>

\* the backoff wait runs to its end; the receiver is polled first, so the
\* timer wins only while no value has been sent.  The loop body ends and
\* with it its outcome ret.
BackoffElapsed ==
  /\ pc = "rl_backoff"
  /\ ~cancel
  /\ pc' = backoff_next(cancel)
  /\ wait' = 0
  /\ ret' = "none"
  /\ page' = "none"
  /\ UNCHANGED <<cfg, times, cancel, sigint, my, clients, database_id,
                 status, move_cid, sent, inflight, whoamiLog, scen, err>>
  /\ UNCHANGED <<iovars, codecvars>>

\* ------------------------------------------------ check_online_in_offline
\* web_enabled: ask the presence page; "online" returns before any connect
CooWeb ==
  /\ pc = "coo_web"
  /\ inflight' = FALSE
  /\ \E answer \in (IF inflight THEN {"error", "online", "offline"}
                     ELSE {"error"}) :
       /\ page' = answer
       /\ CASE answer = "error" -> Fail("coo_web", 0)
            [] answer = "online" -> Return(web_online_status)
            [] answer = "offline" -> Goto("coo_connect")
  /\ UNCHANGED <<cfg, cancel, sigint, my, clients, database_id, status,
                 move_cid, sent, whoamiLog, scen>>
  /\ UNCHANGED <<iovars, codecvars>>

\* conn.connect_server(address, username)
CooConnect ==
  /\ pc = "coo_connect"
  /\ inflight' = FALSE
  /\ \E r \in Answers(BasicReplies) : Try(r, "coo_connect", "coo_wait")
  /\ UNCHANGED <<cfg, cancel, sigint, my, clients, database_id, status,
                 move_cid, sent, whoamiLog, page, scen>>
  /\ UNCHANGED <<iovars, codecvars>>

\* wait_until_connect: one who_am_i of the loop
CooWaitWhoAmI ==
  /\ pc = "coo_wait"
  /\ inflight' = FALSE
  /\ \E r \in Answers(QueryReplies) :
       IF r.kind = "err" /\ r.code = NOT_CONNECTED
       THEN Goto("coo_wait_sleep")
       ELSE Try(r, "coo_wait", IF cfg.web THEN "coo_early" ELSE "coo_whoami")
  /\ UNCHANGED <<cfg, cancel, sigint, my, clients, database_id, status,
                 move_cid, sent, whoamiLog, page, scen>>
  /\ UNCHANGED <<iovars, codecvars>>

\* wait_until_connect: sleep(1 s), continue
CooWaitSleep ==
  /\ pc = "coo_wait_sleep"
  /\ Goto("coo_wait")
  /\ UNCHANGED <<cfg, cancel, sigint, my, clients, database_id, status,
                 move_cid, sent, inflight, whoamiLog, page, scen>>
  /\ UNCHANGED <<iovars, codecvars>>

\* wait_timeout: server.timeout seconds are over before who_am_i succeeded;
\* the who_am_i in progress is dropped
CooWaitElapsed ==
  /\ pc \in {"coo_wait", "coo_wait_sleep"}
  /\ inflight' = FALSE
  /\ Fail("coo_wait_timeout", 0)
  /\ UNCHANGED <<cfg, cancel, sigint, my, clients, database_id, status,
                 move_cid, sent, whoamiLog, page, scen>>
  /\ UNCHANGED <<iovars, codecvars>>

\* let my = conn.who_am_i()
CooWhoAmI ==
  /\ pc = "coo_whoami"
  /\ inflight' = FALSE
  /\ \E r \in Answers(QueryReplies), id \in ClientIds :
       /\ Try(r, "coo_whoami", "coo_clients")
       /\ my' = IF r.kind = "ok" THEN id ELSE my
  /\ UNCHANGED <<cfg, cancel, sigint, clients, database_id, status,
                 move_cid, sent, whoamiLog, page, scen>>
  /\ UNCHANGED <<iovars, codecvars>>

\* let clients = conn.query_clients(); the database_id == 0 check
CooClients ==
  /\ pc = "coo_clients"
  /\ inflight' = FALSE
  /\ \E r \in Answers(QueryReplies), cl \in ClientLists :
       IF r.kind = "ok" /\ self_database_id(cl, my) = 0
       THEN Fail("coo_database_id", 0)
       ELSE Try(r, "coo_clients", "coo_dup_whoami")
  /\ UNCHANGED <<cfg, cancel, sigint, my, clients, database_id, status,
                 move_cid, sent, whoamiLog, page, scen>>
  /\ UNCHANGED <<iovars, codecvars>>

\* check_self_duplicate: who_am_i
CooDupWhoAmI ==
  /\ pc = "coo_dup_whoami"
  /\ inflight' = FALSE
  /\ \E r \in Answers(QueryReplies), id \in ClientIds :
       /\ Try(r, "coo_dup_whoami", "coo_dup_clients")
       /\ my' = IF r.kind = "ok" THEN id ELSE my
  /\ UNCHANGED <<cfg, cancel, sigint, clients, database_id, status,
                 move_cid, sent, whoamiLog, page, scen>>
  /\ UNCHANGED <<iovars, codecvars>>

\* check_self_duplicate: query_clients and the count
CooDupClients ==
  /\ pc = "coo_dup_clients"
  /\ inflight' = FALSE
  /\ \E r \in Answers(QueryReplies), cl \in ClientLists :
       IF r.kind # "ok" THEN Try(r, "coo_dup_clients", "coo_dup_clients")
       ELSE IF check_self_duplicate(cl, my) = "none"
            THEN Fail("coo_dup_database_id", -3)
       ELSE IF check_self_duplicate(cl, my) = "true"
            THEN Goto("coo_dup_disconnect")
       ELSE Goto("coo_early")
  /\ UNCHANGED <<cfg, cancel, sigint, my, clients, database_id, status,
                 move_cid, sent, whoamiLog, page, scen>>
  /\ UNCHANGED <<iovars, codecvars>>

\* duplicate found: disconnect, return DuplicateClient
CooDupDisconnect ==
  /\ pc = "coo_dup_disconnect"
  /\ inflight' = FALSE
  /\ \E r \in Answers(BasicReplies) :
       IF r.kind = "ok" THEN Return("DuplicateClient")
       ELSE Fail("coo_dup_disconnect", r.code)
  /\ UNCHANGED <<cfg, cancel, sigint, my, clients, database_id, status,
                 move_cid, sent, whoamiLog, page, scen>>
  /\ UNCHANGED <<iovars, codecvars>>

\* "Early check": a watched id in the client list
CooEarly ==
  /\ pc = "coo_early"
  /\ inflight' = FALSE
  /\ \E r \in Answers(QueryReplies), cl \in ClientLists :
       IF r.kind # "ok" THEN Try(r, "coo_early", "coo_early")
       ELSE IF cared_user(cl, MonitorIds) THEN Goto("coo_td_disconnect")
       ELSE Goto("coo_switch_whoami")
  /\ UNCHANGED <<cfg, cancel, sigint, my, clients, database_id, status,
                 move_cid, sent, whoamiLog, page, scen>>
  /\ UNCHANGED <<iovars, codecvars>>

\* watched id found: disconnect, return TargetDetected
CooTdDisconnect_mut_skip ==
  /\ pc = "coo_td_disconnect"
  /\ inflight' = FALSE
  /\ Return("TargetDetected")
  /\ UNCHANGED <<cfg, cancel, sigint, my, clients, database_id, status,
                 move_cid, sent, whoamiLog, page, scen>>
  /\ UNCHANGED <<iovars, codecvars>>

CooTdDisconnect ==
  /\ pc = "coo_td_disconnect"
  /\ inflight' = FALSE
  /\ \E r \in Answers(BasicReplies) :
       IF r.kind = "ok" THEN Return("TargetDetected")
       ELSE Fail("coo_td_disconnect", r.code)
  /\ UNCHANGED <<cfg, cancel, sigint, my, clients, database_id, status,
                 move_cid, sent, whoamiLog, page, scen>>
  /\ UNCHANGED <<iovars, codecvars>>

\* switch_channel_by_name: who_am_i
CooSwitchWhoAmI ==
  /\ pc = "coo_switch_whoami"
  /\ inflight' = FALSE
  /\ \E r \in Answers(QueryReplies), id \in ClientIds :
       /\ Try(r, "coo_switch_whoami", "coo_switch_channels")
       /\ my' = IF r.kind = "ok" THEN id ELSE my
  /\ UNCHANGED <<cfg, cancel, sigint, clients, database_id, status,
                 move_cid, sent, whoamiLog, page, scen>>
  /\ UNCHANGED <<iovars, codecvars>>

\* switch_channel_by_name: query_channels, first channel of that name
CooSwitchChannels ==
  /\ pc = "coo_switch_channels"
  /\ inflight' = FALSE
  /\ \E r \in Answers(QueryReplies), chs \in ChannelLists :
       IF r.kind # "ok"
       THEN /\ Try(r, "coo_switch_channels", "coo_switch_channels")
            /\ UNCHANGED move_cid
       ELSE IF first_channel(chs, ChannelName, 1) = 0
            THEN /\ Fail("coo_channel_not_found", -2)
                 /\ UNCHANGED move_cid
       ELSE /\ Goto("coo_switch_move")
            /\ move_cid' = first_channel(chs, ChannelName, 1)
  /\ UNCHANGED <<cfg, cancel, sigint, my, clients, database_id, status,
                 sent, whoamiLog, page, scen>>
  /\ UNCHANGED <<iovars, codecvars>>

\* switch_channel_by_name: the answer to clientmove
CooSwitchMove ==
  /\ pc = "coo_switch_move"
  /\ inflight' = FALSE
  /\ \E r \in Answers(BasicReplies) :
       Try(r, "coo_switch_move", "coo_switch_sleep")
  /\ move_cid' = 0
  /\ UNCHANGED <<cfg, cancel, sigint, my, clients, database_id, status,
                 sent, whoamiLog, page, scen>>
  /\ UNCHANGED <<iovars, codecvars>>

\* sleep(500 us), then the password branch or Ok(NotOnline)
CooSwitchSleep ==
  /\ pc = "coo_switch_sleep"
  /\ IF cfg.password THEN Goto("coo_pw_whoami") ELSE Return("NotOnline")
  /\ UNCHANGED <<cfg, cancel, sigint, my, clients, database_id, status,
                 move_cid, sent, inflight, whoamiLog, page, scen>>
  /\ UNCHANGED <<iovars, codecvars>>

\* set_current_channel_password: who_am_i; an Err is logged and ignored
CooPwWhoAmI ==
  /\ pc = "coo_pw_whoami"
  /\ inflight' = FALSE
  /\ \E r \in Answers(QueryReplies) :
       CASE r.kind = "ok" -> Goto("coo_pw_edit")
         [] r.kind = "panic" -> Panic("coo_pw_whoami")
         [] r.kind = "err" -> Return("NotOnline")
  /\ UNCHANGED <<cfg, cancel, sigint, my, clients, database_id, status,
                 move_cid, sent, whoamiLog, page, scen>>
  /\ UNCHANGED <<iovars, codecvars>>

\* set_channel_password: channeledit; an Err is logged and ignored
CooPwEdit ==
  /\ pc = "coo_pw_edit"
  /\ inflight' = FALSE
  /\ \E r \in Answers(BasicReplies) : Return("NotOnline")
  /\ UNCHANGED <<cfg, cancel, sigint, my, clients, database_id, status,
                 move_cid, sent, whoamiLog, page, scen>>
  /\ UNCHANGED <<iovars, codecvars>>

\* ------------------------------------------------------------- real_staff
\* query_database_id: who_am_i
RsDbidWhoAmI ==
  /\ pc = "rs_dbid_whoami"
  /\ inflight' = FALSE
  /\ \E r \in Answers(QueryReplies), id \in ClientIds :
       /\ Try(r, "rs_dbid_whoami", "rs_dbid_clients")
       /\ my' = IF r.kind = "ok" THEN id ELSE my
  /\ UNCHANGED <<cfg, cancel, sigint, clients, database_id, status,
                 move_cid, sent, whoamiLog, page, scen>>
  /\ UNCHANGED <<iovars, codecvars>>

\* query_database_id: query_clients and the lookup of the own client id
RsDbidClients ==
  /\ pc = "rs_dbid_clients"
  /\ inflight' = FALSE
  /\ \E r \in Answers(QueryReplies), cl \in ClientLists :
       IF r.kind # "ok"
       THEN /\ Try(r, "rs_dbid_clients", "rs_dbid_clients")
            /\ UNCHANGED database_id
       ELSE IF self_database_id(cl, my) = 0
            THEN /\ Fail("rs_database_id", -3)
                 /\ UNCHANGED database_id
       ELSE /\ Goto("rs_head")
            /\ database_id' = self_database_id(cl, my)
  /\ my' = 0
  /\ UNCHANGED <<cfg, cancel, sigint, clients, status, move_cid,
                 sent, whoamiLog, page, scen>>
  /\ UNCHANGED <<iovars, codecvars>>

\* loop head: if recv.try_recv().is_ok() { return Ok(()) }
RsHead ==
  /\ pc = "rs_head"
  /\ Goto(loop_head_next(cancel))
  /\ sent' = {}
  /\ clients' = <<>>
  /\ status' = FALSE
  /\ UNCHANGED <<cfg, cancel, sigint, my, database_id, move_cid, inflight, whoamiLog, page, scen>>
  /\ UNCHANGED <<iovars, codecvars>>

\* let clients = conn.query_clients()
RsClients ==
  /\ pc = "rs_clients"
  /\ inflight' = FALSE
  /\ \E r \in Answers(QueryReplies), cl \in ClientLists :
       /\ Try(r, "rs_clients", "rs_status")
       /\ clients' = IF r.kind = "ok" THEN cl ELSE clients
  /\ UNCHANGED <<cfg, cancel, sigint, my, database_id, status, move_cid,
                 sent, whoamiLog, page, scen>>
  /\ UNCHANGED <<iovars, codecvars>>

\* let status = vlc_con.get_status(): write "status", sleep(100 ms), read
RsStatus ==
  /\ pc = "rs_status"
  /\ inflight' = FALSE
  /\ \E answer \in (IF inflight THEN {"error", "playing", "paused"}
                     ELSE {"error"}) :
       IF answer = "error"
       THEN /\ Fail("rs_status", 0)
            /\ UNCHANGED status
       ELSE /\ Goto("rs_exit_check")
            /\ status' = (answer = "playing")
  /\ UNCHANGED <<cfg, cancel, sigint, my, clients, database_id, move_cid,
                 sent, whoamiLog, page, scen>>
  /\ UNCHANGED <<iovars, codecvars>>

\* if cared_user && need_exit { conn.disconnect().await?; break }
RsExitCheck ==
  /\ pc = "rs_exit_check"
  /\ inflight' = FALSE
  /\ IF cared_user(clients, MonitorIds) /\ cfg.need_exit
     THEN \E r \in Answers(BasicReplies) :
            Try(r, "rs_exit_disconnect", "done")
     ELSE Goto("rs_dup_check")
  /\ UNCHANGED <<cfg, cancel, sigint, my, clients, database_id, status,
                 move_cid, sent, whoamiLog, page, scen>>
  /\ UNCHANGED <<iovars, codecvars>>

\* the duplicate-session guard
RsDupCheck ==
  /\ pc = "rs_dup_check"
  /\ inflight' = FALSE
  /\ IF self_duplicate(clients, database_id)
     THEN \E r \in Answers(BasicReplies) :
            Try(r, "rs_dup_disconnect", "rs_compare")
     ELSE Goto("rs_compare")
  /\ UNCHANGED <<cfg, cancel, sigint, my, clients, database_id, status,
                 move_cid, sent, whoamiLog, page, scen>>
  /\ UNCHANGED <<iovars, codecvars>>

\* if status == cared_user { pause or play }: play and pause are one
\* write_data each, and a write that fails has written nothing
RsCompare ==
  /\ pc = "rs_compare"
  /\ LET present == cared_user(clients, MonitorIds)
         cmd == compare_command(status, present)
     IN \E written \in BOOLEAN :
          IF cmd = "none" \/ written
          THEN /\ Goto("rs_sleep")
               /\ sent' = IF cmd = "none" THEN sent ELSE sent \cup {cmd}
               /\ scen' = scen_next(scen, present, status, cmd)
          ELSE /\ Fail("rs_toggle", 0)
               /\ UNCHANGED <<sent, scen>>
  /\ UNCHANGED <<cfg, cancel, sigint, my, clients, database_id, status,
                 move_cid, inflight, whoamiLog, page>>
  /\ UNCHANGED <<iovars, codecvars>>

\* timeout(5 ms, &mut recv): a value ends the loop, the timer starts a tick
RsSleep ==
  /\ pc = "rs_sleep"
  /\ Goto(tick_sleep_next(cancel))
  /\ UNCHANGED <<cfg, cancel, sigint, my, clients, database_id, status,
                 move_cid, sent, inflight, whoamiLog, page, scen>>
  /\ UNCHANGED <<iovars, codecvars>>

\* ------------------------------------------------- staff: the signal flow
\* first ctrl_c: sender.send(true)
Sigint1_mut_exit ==
  /\ pc \notin Terminal
  /\ sigint = 0
  /\ sigint' = 1
  /\ cancel' = TRUE
  /\ pc' = "exit137"
  /\ UNCHANGED <<cfg, times, ret, wait, my, clients, database_id, status,
                 move_cid, sent, inflight, whoamiLog, page, scen, err>>
  /\ UNCHANGED <<iovars, codecvars>>

Sigint1 ==
  /\ pc \notin Terminal
  /\ sigint = 0
  /\ sigint' = 1
  /\ cancel' = TRUE
  /\ UNCHANGED <<pc, cfg, times, ret, wait, my, clients, database_id, status,
                 move_cid, sent, inflight, whoamiLog, page, scen, err>>
  /\ UNCHANGED <<iovars, codecvars>>

\* second ctrl_c: std::process::exit(137)
Sigint2 ==
  /\ pc \notin Terminal
  /\ sigint = 1
  /\ sigint' = 2
  /\ pc' = "exit137"
  /\ UNCHANGED <<cfg, times, ret, wait, cancel, my, clients, database_id,
                 status, move_cid, sent, inflight, whoamiLog, page, scen, err>>
  /\ UNCHANGED <<iovars, codecvars>>

Next ==
  \/ WriteData
  \/ RlConfig \/ RlConnect \/ RlLogin \/ VlcConnect \/ VlcGreeting \/ VlcVerify
  \/ RlWhoAmI \/ BackoffCancelled \/ BackoffElapsed
  \/ CooWeb \/ CooConnect \/ CooWaitWhoAmI \/ CooWaitSleep \/ CooWaitElapsed
  \/ CooWhoAmI \/ CooClients \/ CooDupWhoAmI \/ CooDupClients
  \/ CooDupDisconnect \/ CooEarly \/ CooTdDisconnect
  \/ CooSwitchWhoAmI \/ CooSwitchChannels \/ CooSwitchMove \/ CooSwitchSleep
  \/ CooPwWhoAmI \/ CooPwEdit
  \/ RsDbidWhoAmI \/ RsDbidClients \/ RsHead \/ RsClients \/ RsStatus
  \/ RsExitCheck \/ RsDupCheck \/ RsCompare \/ RsSleep
  \/ Sigint1 \/ Sigint2

Spec == Init /\ [][Next]_vars

\* =========================================== the console connection
\* One SocketConn at the level of conn.write and conn.read.  The peer sends
\* its answers in chunks, one chunk per send; the connection is a byte
\* stream, so one read returns one chunk or several queued ones, of one
\* answer or of two.  A chunk is BUFFER_SIZE bytes
\* (full) or shorter, and says what the text read so far gains with it: no
\* status line ("none"), a line that starts with "error id=" ("plain": the
\* status line starts the text or follows a bare "\n"), or a status line
\* behind white space ("lead": it follows the "\r" of a "\n\r" terminator).
\* Each chunk carries the request the peer is answering.
Chunk(r, f, st) == [req |-> r, full |-> f, status |-> st]

\* read_data: ret.lines().any(|line| line.starts_with("error id="))
any_line_status(chunks) ==
  \E i \in 1..Len(chunks) : chunks[i].status = "plain"

\* delay_read: s.lines().any(|line| line.trim().starts_with("error id="))
any_trimmed_line_status(chunks) ==
  \E i \in 1..Len(chunks) : chunks[i].status \in {"plain", "lead"}

\* read_data: the loop goes on after a read of size == BUFFER_SIZE without
\* a line of ret that starts with "error id="
read_data_more(ret_, full) == full /\ ~any_line_status(ret_)

\* conn.read(&mut buffer) on the queued chunks q: up to BUFFER_SIZE bytes
\* from the front of the stream.  got is what the read returns, full says
\* that it filled the buffer, rest is what stays queued.  The read returns
\* the first chunk; or several short chunks together (short of the buffer
\* or exactly filling it); or short chunks and the front part of the chunk
\* behind them, filling the buffer, the status line of the cut chunk being
\* in the part read or in the part left.
conn_read(q) ==
  {[got |-> <<q[1]>>, full |-> q[1].full, rest |-> Tail(q)]}
  \cup
  {[got |-> SubSeq(q, 1, n), full |-> f, rest |-> SubSeq(q, n + 1, Len(q))] :
     n \in {m \in 2..Len(q) : \A i \in 1..m : ~q[i].full}, f \in BOOLEAN}
  \cup
  {[got |-> Append(SubSeq(q, 1, n - 1),
                   Chunk(q[n].req, FALSE,
                         IF front THEN q[n].status ELSE "none")),
    full |-> TRUE,
    rest |-> <<Chunk(q[n].req, FALSE,
                     IF front THEN "none" ELSE q[n].status)>>
             \o SubSeq(q, n + 1, Len(q))] :
     n \in {m \in 2..Len(q) : \A i \in 1..(m - 1) : ~q[i].full},
     front \in BOOLEAN}

\* the requests whose chunks make up a text
Askers(chunks) == {chunks[i].req : i \in 1..Len(chunks)}

\* the requests whose status line is in a text
Answered(chunks) ==
  {chunks[i].req : i \in {j \in 1..Len(chunks) : chunks[j].status # "none"}}

IoErr(n, k) == [req |-> n, kind |-> k, from |-> {}, text |-> <<>>]

\* the request in progress returns res to its caller
IoReturn(res) ==
  /\ io_res' = res
  /\ io_pc' = "idle"
  /\ read_ret' = <<>>
  /\ delay_s' = <<>>
  /\ spun' = 0

\* delay_read with the value r of read_data: s.push_str(&r), then break on
\* a status line or read again
delay_read_push(r) ==
  LET s == delay_s \o r
  IN IF any_trimmed_line_status(s)
     THEN /\ IoReturn([req |-> io_req, kind |-> "ok", from |-> Askers(s),
                        text |-> s])
          /\ unread' = unread \ Answered(s)
     ELSE /\ delay_s' = s
          /\ read_ret' = <<>>
          /\ io_pc' = "read"
          /\ UNCHANGED <<io_res, unread>>

\* write_and_read: write_data, then the first read of delay_read.  The
\* caller is at a point where it issues a request: at the start, after a
\* reply, or after an error it ignores.
IoWrite ==
  /\ io_pc = "idle"
  /\ io_req < MaxRequests
  /\ io_req' = io_req + 1
  /\ \E written \in {TRUE} \cup (IF closed = "open" THEN {} ELSE {FALSE}) :
       IF written
       THEN /\ io_pc' = "read"
            /\ unread' = unread \cup {io_req + 1}
            /\ peer_todo' = IF closed = "open"
                            THEN Append(peer_todo, io_req + 1) ELSE peer_todo
            /\ UNCHANGED io_res
       ELSE /\ io_res' = IoErr(io_req + 1, "write")
            /\ UNCHANGED <<io_pc, unread, peer_todo>>
  /\ UNCHANGED <<wire, closed, read_ret, delay_s, peer_chunks, spun>>
  /\ UNCHANGED <<mvars, codecvars>>

\* the caller propagates the error of the last request with "?"
IoStop ==
  /\ io_pc = "idle"
  /\ io_res.kind \notin {"none", "ok"}
  /\ io_pc' = "stopped"
  /\ UNCHANGED <<io_req, unread, wire, closed, read_ret, delay_s, io_res,
                 peer_todo, peer_chunks, spun>>
  /\ UNCHANGED <<mvars, codecvars>>

\* the peer sends one more chunk of its answer to the oldest request it has
PeerSend ==
  /\ closed = "open"
  /\ peer_todo # <<>>
  /\ \E f \in BOOLEAN, st \in {"none", "plain", "lead"} :
       /\ st = "none" => peer_chunks < MaxChunks
       /\ wire' = Append(wire, Chunk(Head(peer_todo), f, st))
       /\ peer_chunks' = IF st = "none" THEN peer_chunks + 1 ELSE 0
       /\ peer_todo' = IF st = "none" THEN peer_todo ELSE Tail(peer_todo)
  /\ UNCHANGED <<io_pc, io_req, unread, closed, read_ret, delay_s, io_res,
                 spun>>
  /\ UNCHANGED <<mvars, codecvars>>

\* the peer closes the connection: in order (FIN) or with a reset (RST)
PeerClose ==
  /\ closed = "open"
  /\ \E how \in {"fin", "rst"} : closed' = how
  /\ peer_todo' = <<>>
  /\ peer_chunks' = 0
  /\ UNCHANGED <<io_pc, io_req, unread, wire, read_ret, delay_s, io_res,
                 spun>>
  /\ UNCHANGED <<mvars, codecvars>>

\* conn.read returns what is queued within the 2 s; what the peer sent
\* before it closed or reset the connection is still read
IoRead ==
  /\ io_pc = "read"
  /\ wire # <<>>
  /\ \E rd \in conn_read(wire) :
       /\ wire' = rd.rest
       /\ LET r == read_ret \o rd.got
          IN IF read_data_more(r, rd.full)
             THEN /\ read_ret' = r
                  /\ UNCHANGED <<io_pc, io_res, unread, delay_s>>
             ELSE delay_read_push(r)
  /\ spun' = IF io_pc' = "idle" THEN 0 ELSE spun
  /\ UNCHANGED <<io_req, closed, peer_todo, peer_chunks>>
  /\ UNCHANGED <<mvars, codecvars>>

\* conn.read does not return within the 2 s: read_data returns Ok(None),
\* dropping its ret, and delay_read turns that into the error
\* "READ NONE DATA"
IoReadTimeout ==
  /\ io_pc = "read"
  /\ wire = <<>>
  /\ closed = "open"
  /\ IoReturn(IoErr(io_req, "none_data"))
  /\ unread' = unread \ Answered(read_ret)
  /\ UNCHANGED <<io_req, wire, closed, peer_todo, peer_chunks>>
  /\ UNCHANGED <<mvars, codecvars>>

\* conn.read on a connection the peer has closed in order, with nothing
\* left to read: Ok(0), so read_data returns Some(ret) with size < BUFFER_SIZE
IoReadEof ==
  /\ io_pc = "read"
  /\ wire = <<>>
  /\ closed = "fin"
  /\ delay_read_push(read_ret)
  /\ spun' = IF io_pc' = "idle" THEN 0 ELSE IF spun = 1 THEN 2 ELSE 1
  /\ UNCHANGED <<io_req, wire, closed, peer_todo, peer_chunks>>
  /\ UNCHANGED <<mvars, codecvars>>

\* conn.read on a reset connection with nothing left to read: Err(e),
\* "Got error while read data"
IoReadError ==
  /\ io_pc = "read"
  /\ wire = <<>>
  /\ closed = "rst"
  /\ IoReturn(IoErr(io_req, "read"))
  /\ unread' = unread \ Answered(read_ret)
  /\ UNCHANGED <<io_req, wire, closed, peer_todo, peer_chunks>>
  /\ UNCHANGED <<mvars, codecvars>>

\* the steps of the client inside a request
IoFlow == IoRead \/ IoReadTimeout \/ IoReadEof \/ IoReadError

InitIO ==
  /\ MonitorStart(CHOOSE config \in Configs : TRUE)
  /\ IoStart
  /\ CodecStart

NextIO ==
  \/ IoWrite \/ IoStop \/ PeerSend \/ PeerClose
  \/ IoRead \/ IoReadTimeout \/ IoReadEof \/ IoReadError

SpecIO == InitIO /\ [][NextIO]_vars

\* the client task is scheduled: a read that can return does return
SpecIOFair == SpecIO /\ WF_vars(IoFlow)

\* ================================================== the Session codec
\* ---- escape
\* a string is a sequence of characters
Alphabet == {"\\", " ", "/", "a", "s"}
Strings == UNION {[1..n -> Alphabet] : n \in 0..MaxLen}

\* str::replace(from, to) with a one-character pattern
RECURSIVE replace(_, _, _)
replace(s, from, to) ==
  IF s = <<>> THEN <<>>
  ELSE (IF Head(s) = from THEN to ELSE <<Head(s)>>)
       \o replace(Tail(s), from, to)

\* s.replace('\\', "\\\\").replace(' ', "\\s").replace('/', "\\/")
escape_mut_order(s) ==
  replace(replace(replace(s, " ", <<"\\", "s">>),
                  "/", <<"\\", "/">>),
          "\\", <<"\\", "\\">>)

escape(s) ==
  replace(replace(replace(s, "\\", <<"\\", "\\">>),
                  " ", <<"\\", "s">>),
          "/", <<"\\", "/">>)

\* the reverse of escape as the specification describes it: read left to
\* right, a backslash and the character after it stand for one character
RECURSIVE unescape(_)
unescape(s) ==
  IF s = <<>> THEN <<>>
  ELSE IF Head(s) = "\\" /\ Len(s) >= 2
       THEN <<IF s[2] = "s" THEN " " ELSE s[2]>>
            \o unescape(SubSeq(s, 3, Len(s)))
       ELSE <<Head(s)>> \o unescape(Tail(s))

\* ---- replies
\* the fields of Channel, all of them required by its Deserialize, and those
\* of type i64, which are read as a string and parsed by the from_str helper
ChannelFields == {"cid", "pid", "channel_order", "channel_name",
                  "total_clients"}
IntFields == {"cid", "pid", "channel_order", "total_clients"}

\* one '|'-separated segment of a data line: the keys it carries, each with
\* its value as text (a number as the sequence of its characters)
Lobby == [cid |-> <<"1">>, pid |-> <<"0">>, channel_order |-> <<"0">>,
          channel_name |-> "Lobby", total_clients |-> <<"3">>]
AFK == [cid |-> <<"2">>, pid |-> <<"0">>, channel_order |-> <<"1">>,
        channel_name |-> "AFK", total_clients |-> <<"0">>]
Without(seg, key) == [k \in (DOMAIN seg) \ {key} |-> seg[k]]
Segments ==
  {Lobby, AFK,
   Without(Lobby, "channel_order"), Without(AFK, "channel_order"),
   [Lobby EXCEPT !.cid = <<"x">>],
   [AFK EXCEPT !.pid = <<"-", "1">>, !.total_clients = <<"1", "0">>]}

\* a line of a reply without its terminator: a data line, a status line
\* "error id=.. msg=..", or a line "error id=.." that does not deserialize
\* as a QueryStatus (it has no msg)
DataLine(segs) == [kind |-> "data", segs |-> segs]
StatusLine(id, msg) == [kind |-> "status", id |-> id, msg |-> msg]
BadStatusLine == [kind |-> "badstatus"]
EmptyLine == [kind |-> "empty"]
DataLines == {DataLine(segs) :
                segs \in UNION {[1..n -> Segments] : n \in 1..MaxSegs}}

\* the lines of a reply by kind; the data lines of one reply are the same
\* line (the decoders parse the first row line only)
Kinds == {"data", "ok", "err", "bad"}
Shapes == UNION {[1..n -> Kinds] : n \in 1..MaxLines}
Content(shape, d) ==
  [i \in 1..Len(shape) |->
     CASE shape[i] = "data" -> d
       [] shape[i] = "ok" -> StatusLine(0, "ok")
       [] shape[i] = "err" -> StatusLine(512, "invalid clientID")
       [] shape[i] = "bad" -> BadStatusLine]

\* str::lines(): the text is cut at every "\n", and a "\r" is dropped only
\* as part of "\r\n". With the terminator "\n\r" every line after the first
\* starts with "\r", and the "\r" of the last terminator is a line of its
\* own; lead says that a line starts with "\r"
lines(text) ==
  [i \in 1..Len(text.body) |->
     [line |-> text.body[i],
      lead |-> IF i = 1 THEN text.lead ELSE text.term = "lfcr"]]
  \o (IF text.tail THEN <<[line |-> EmptyLine, lead |-> TRUE]>> ELSE <<>>)

\* the texts a peer sends in answer to one request: nothing at all, or lines
\* ended by "\n" / "\r\n", or lines ended by "\n\r", with or without a
\* "\r" in front that the read before left behind and with or without the
\* last "\r" read. A data line is taken without a "\r" in front of it: what
\* a record with such a first key deserializes to is decided inside
\* serde_teamspeak_querystring
Replies ==
  {NoText}
  \cup
  {t \in {Text(Content(sh, d), term, lead, tail) :
            sh \in Shapes, d \in DataLines,
            term \in {"lf", "lfcr"}, lead \in BOOLEAN, tail \in BOOLEAN} :
     /\ t.term = "lf" => ~t.lead /\ ~t.tail
     /\ t.term = "lfcr" => Len(t.body) > 1 \/ t.lead \/ t.tail
     /\ \A i \in 1..Len(t.body) :
          t.body[i].kind = "data" => ~lines(t)[i].lead}

\* QueryResult values of the decoders
OkWith(v) == [kind |-> "ok", value |-> v]
ErrWith(code, msg) == [kind |-> "err", code |-> code, msg |-> msg]
ParseErr == ErrWith(-2, "parse")
ReadNoneData == ErrWith(-2, "READ NONE DATA")
Crash == [kind |-> "panic"]
NoRows == [kind |-> "ok_none"]

\* line.trim().starts_with("error ")
trim_starts_with_error(l) == l.line.kind \in {"status", "badstatus"}

\* line.trim().starts_with("error id=")
trim_starts_with_error_id(l) == l.line.kind \in {"status", "badstatus"}

\* line.starts_with("error ")
starts_with_error(l) == l.line.kind \in {"status", "badstatus"} /\ ~l.lead

\* QueryStatus::into_result
into_result_mut_ok(st, v) == OkWith(v)

into_result(st, v) ==
  IF st.id = 0 THEN OkWith(v) ELSE ErrWith(st.id, st.msg)

\* decode_status from line i on: the first line that trims to "error .."
\* is parsed (QueryStatus::try_from, "?") and decides; no such line: panic
RECURSIVE decode_status_from(_, _)
decode_status_from(content, i) ==
  IF i > Len(lines(content)) THEN Crash
  ELSE LET l == lines(content)[i]
       IN IF trim_starts_with_error(l)
          THEN IF l.line.kind = "badstatus" THEN ParseErr
               ELSE into_result(l.line, content)
          ELSE decode_status_from(content, i + 1)

decode_status(content) == decode_status_from(content, 1)

\* i64::from_str: an optional sign and at least one decimal digit
IsDigit(c) == c \in {"0", "1", "2", "3", "4", "5", "6", "7", "8", "9"}
DigitValue(c) ==
  CASE c = "0" -> 0 [] c = "1" -> 1 [] c = "2" -> 2 [] c = "3" -> 3
    [] c = "4" -> 4 [] c = "5" -> 5 [] c = "6" -> 6 [] c = "7" -> 7
    [] c = "8" -> 8 [] c = "9" -> 9

RECURSIVE digits_value(_, _)
digits_value(s, acc) ==
  IF s = <<>> THEN acc
  ELSE digits_value(Tail(s), acc * 10 + DigitValue(Head(s)))

i64_from_str(s) ==
  LET signed == s # <<>> /\ Head(s) \in {"-", "+"}
      digits == IF signed THEN Tail(s) ELSE s
  IN IF digits = <<>> \/ \E i \in 1..Len(digits) : ~IsDigit(digits[i])
     THEN [ok |-> FALSE]
     ELSE [ok |-> TRUE,
           v |-> IF signed /\ Head(s) = "-" THEN 0 - digits_value(digits, 0)
                 ELSE digits_value(digits, 0)]

\* Channel::from_query on one segment: every field is required and every
\* i64 field goes through the from_str helper
from_query(seg) ==
  IF ~(ChannelFields \subseteq DOMAIN seg) THEN ParseErr
  ELSE IF \E k \in IntFields : ~i64_from_str(seg[k]).ok THEN ParseErr
  ELSE OkWith([k \in ChannelFields |->
                 IF k \in IntFields THEN i64_from_str(seg[k]).v ELSE seg[k]])

\* for element in line.split('|') { v.push(T::from_query(element)?) }
RECURSIVE parse_segments(_, _, _)
parse_segments(segs, i, v) ==
  IF i > Len(segs) THEN OkWith(v)
  ELSE LET r == from_query(segs[i])
       IN IF r.kind = "err" THEN r
          ELSE parse_segments(segs, i + 1, Append(v, r.value))

\* the elements of a line for split('|'): the segments of a data line; a
\* status line with "\r" in front, and the line that is "\r" alone, are one
\* element that holds no field of the record
parse_line(l) ==
  IF l.line.kind = "data" THEN parse_segments(l.line.segs, 1, <<>>)
  ELSE ParseErr

RECURSIVE first_row_line(_, _)
first_row_line(content, i) ==
  IF i > Len(lines(content)) THEN NoRows
  ELSE IF ~starts_with_error(lines(content)[i])
       THEN parse_line(lines(content)[i])
       ELSE first_row_line(content, i + 1)

decode_status_with_result(data) ==
  LET st == decode_status(data)
  IN IF st.kind # "ok" THEN st ELSE first_row_line(st.value, 1)

\* s.lines().any(|line| line.trim().starts_with("error id="))
has_error_id_line(s) ==
  \E i \in 1..Len(lines(s)) : trim_starts_with_error_id(lines(s)[i])

\* delay_read when the peer sends the text s and then nothing more: s is
\* returned once it holds a line "error id=.."; without one the next
\* read_data times out and its Ok(None) becomes the error "READ NONE DATA"
delay_read_mut_pass(s) == OkWith(s)

delay_read(s) ==
  IF has_error_id_line(s) THEN OkWith(s) ELSE ReadNoneData

\* write_and_read: the write succeeds, the answer is read
write_and_read(s) == delay_read(s)

\* basic_operation: "?" on the read, then decode_status(data).map(|_| ())
basic_operation(s) ==
  LET data == write_and_read(s)
  IN IF data.kind = "err" THEN [stage |-> "read", result |-> data]
     ELSE LET r == decode_status(data.value)
          IN [stage |-> "decode",
              result |-> IF r.kind = "ok" THEN OkWith(<<>>) ELSE r]

\* query_operation_non_error: one write_and_read with "?", one decode with
\* "?", panic on Ok(None)
query_operation_non_error(s) ==
  LET data == write_and_read(s)
  IN IF data.kind = "err"
     THEN [writes |-> 1, stage |-> "read", result |-> data]
     ELSE LET r == decode_status_with_result(data.value)
          IN [writes |-> 1, stage |-> "decode",
              result |-> IF r = NoRows THEN Crash ELSE r]

\* ---- the functions applied to one input
DoEscape ==
  /\ op = "none"
  /\ reply = NoText
  /\ qmy = 0
  /\ op' = "escape"
  /\ out' = escape(str)
  /\ UNCHANGED <<str, reply, qmy, qclients>>
  /\ UNCHANGED <<mvars, iovars>>

DoUnescape ==
  /\ op = "escape"
  /\ op' = "unescape"
  /\ out' = unescape(out)
  /\ UNCHANGED <<str, reply, qmy, qclients>>
  /\ UNCHANGED <<mvars, iovars>>

\* decode_status on a text that write_and_read returned
DoDecodeStatus ==
  /\ op = "none"
  /\ str = <<>>
  /\ qmy = 0
  /\ has_error_id_line(reply)
  /\ op' = "decode_status"
  /\ out' = decode_status(reply)
  /\ UNCHANGED <<str, reply, qmy, qclients>>
  /\ UNCHANGED <<mvars, iovars>>

\* decode_status_with_result on a text that write_and_read returned
DoDecodeRows ==
  /\ op = "none"
  /\ str = <<>>
  /\ qmy = 0
  /\ has_error_id_line(reply)
  /\ op' = "decode_status_with_result"
  /\ out' = decode_status_with_result(reply)
  /\ UNCHANGED <<str, reply, qmy, qclients>>
  /\ UNCHANGED <<mvars, iovars>>

\* a request without records (login, disconnect, ...) that the peer answers
\* with the text reply
DoBasicOperation ==
  /\ op = "none"
  /\ str = <<>>
  /\ qmy = 0
  /\ op' = "basic_operation"
  /\ out' = basic_operation(reply)
  /\ UNCHANGED <<str, reply, qmy, qclients>>
  /\ UNCHANGED <<mvars, iovars>>

\* query_clients / query_channels that the peer answers with the text reply
DoQuery ==
  /\ op = "none"
  /\ str = <<>>
  /\ qmy = 0
  /\ op' = "query_operation_non_error"
  /\ out' = query_operation_non_error(reply)
  /\ UNCHANGED <<str, reply, qmy, qclients>>
  /\ UNCHANGED <<mvars, iovars>>

\* check_self_duplicate on the values its two queries returned
DoCheckSelfDuplicate ==
  /\ op = "none"
  /\ qmy # 0
  /\ op' = "check_self_duplicate"
  /\ out' = check_self_duplicate(qclients, qmy)
  /\ UNCHANGED <<str, reply, qmy, qclients>>
  /\ UNCHANGED <<mvars, iovars>>

\* client lists as the console gives them: no client id twice
UniqueClientLists ==
  {cl \in ClientLists :
     \A i, j \in DOMAIN cl : cl[i].clid = cl[j].clid => i = j}

InitCodec ==
  /\ MonitorStart(CHOOSE config \in Configs : TRUE)
  /\ IoStart
  /\ op = "none"
  /\ out = <<>>
  /\ \/ str \in Strings /\ reply = NoText /\ qmy = 0 /\ qclients = <<>>
     \/ str = <<>> /\ reply \in Replies /\ qmy = 0 /\ qclients = <<>>
     \/ /\ str = <<>> /\ reply = NoText
        /\ qmy \in ClientIds /\ qclients \in UniqueClientLists

NextCodec ==
  \/ DoEscape \/ DoUnescape \/ DoDecodeStatus \/ DoDecodeRows
  \/ DoBasicOperation \/ DoQuery \/ DoCheckSelfDuplicate

SpecCodec == InitCodec /\ [][NextCodec]_vars

\* ================================================================= claims
SteadyPcs == {"rs_dbid_whoami", "rs_dbid_clients", "rs_head", "rs_clients",
              "rs_status", "rs_exit_check", "rs_dup_check", "rs_compare",
              "rs_sleep"}
RoutinePcs == {"coo_web", "coo_connect", "coo_wait", "coo_wait_sleep",
               "coo_whoami", "coo_clients", "coo_dup_whoami",
               "coo_dup_clients", "coo_dup_disconnect", "coo_early",
               "coo_td_disconnect", "coo_switch_whoami",
               "coo_switch_channels", "coo_switch_move",
               "coo_switch_sleep", "coo_pw_whoami", "coo_pw_edit"}
Conflict == {"TargetDetected", "DuplicateClient"}
Asked == Len(whoamiLog) > 0
LastWhoAmI == whoamiLog[Len(whoamiLog)]
Tier(t) == IF t = 1 THEN 300 ELSE IF t = 2 THEN 1800 ELSE 3600

\* C1: for a TargetDetected or DuplicateClient outcome the backoff wait is
\* 300 s at attempt 1, 1800 s at attempt 2 and 3600 s at every attempt >= 3;
\* over the attempts made so far the wait is non-decreasing, and it never
\* exceeds 3600 s.
C1_BackoffTiers ==
  /\ (pc = "rl_backoff" /\ ret \in Conflict) =>
        /\ wait = Tier(times)
        /\ wait <= 3600
  /\ \A r \in Conflict : \A t1, t2 \in 1..times :
        t1 <= t2 => /\ get_duration(cfg, t1, r) <= get_duration(cfg, t2, r)
                    /\ get_duration(cfg, t2, r) <= 3600

C1_Witness ==
  /\ pc = "rl_backoff"
  /\ ret = "DuplicateClient"
  /\ times = 4
  /\ wait = 3600

\* C2: every who_am_i of the entry loop that fails with code 1794 is followed
\* at once by the first step of check_online_in_offline, and records no
\* failure of the run.
C2_NotConnectedRunsRoutine ==
  [][(whoamiLog' # whoamiLog /\ LastWhoAmI' = Err(NOT_CONNECTED)) =>
        /\ pc' = coo_entry(cfg)
        /\ pc' \in RoutinePcs
        /\ err' = NoErr]_vars

C2_Witness ==
  /\ Asked
  /\ LastWhoAmI = Err(NOT_CONNECTED)
  /\ pc = "coo_connect"
  /\ sent = {"whoami"}
  /\ times = 1

\* C3 (as claimed): no run ends in a failure whose cause is a reply with
\* status code 1794, whichever request the reply answers.
C3_Never1794Failure == ~(pc = "failed" /\ err.code = NOT_CONNECTED)

\* C4: if the first who_am_i of the entry loop succeeds, the loop is left at
\* once for real_staff: no second who_am_i of the loop, no run of the
\* routine, no backoff wait, and no presence request, connect, channel list,
\* move or channel edit is ever written.
C4_FirstSuccessGoesSteady ==
  (Asked /\ whoamiLog[1].kind = "ok") =>
     /\ Len(whoamiLog) = 1
     /\ pc \in SteadyPcs \cup Terminal
     /\ times = 0
     /\ wait = 0
     /\ ret = "none"
     /\ page = "none"
     /\ sent \cap {"http", "connect", "clientmove", "channellist",
                   "channeledit"} = {}

C4_Witness ==
  /\ Asked
  /\ whoamiLog[1].kind = "ok"
  /\ pc = "rs_head"
  /\ sent = {"whoami", "clientlist"}

\* C5: once a who_am_i of the entry loop has failed with a code other than
\* 1794 the run has failed with that code, in every later state: it is never
\* in the backoff wait nor in real_staff.
C5_OtherCodeAborts ==
  (Asked /\ LastWhoAmI.kind = "err" /\ LastWhoAmI.code # NOT_CONNECTED) =>
     /\ pc = "failed"
     /\ err = [at |-> "rl_whoami", code |-> LastWhoAmI.code]

C5_Witness ==
  /\ Asked
  /\ LastWhoAmI = Err(512)
  /\ pc = "failed"
  /\ times = 2

\* C6 (as claimed): the attempt counter starts at 0 and is zero whenever the
\* monitor is in SteadyMonitoring.
C6_ZeroInSteady ==
  /\ (~Asked => times = 0)
  /\ (pc \in SteadyPcs => times = 0)

\* C6 (amended): the attempt counter starts at 0, never decreases, goes up by
\* exactly one on every outcome of the routine other than NotOnline (each of
\* which starts a backoff wait), changes at no other step, and is never
\* reset: in SteadyMonitoring it still holds the number of backoff waits
\* made, which is the number of who_am_i calls of the entry loop minus one.
C6_CounterNeverReset ==
  /\ [](~Asked => times = 0)
  /\ [](pc \in SteadyPcs => times = Len(whoamiLog) - 1)
  /\ [][/\ times' >= times
        /\ (pc \in RoutinePcs /\ pc' = "rl_backoff") => times' = times + 1
        /\ (times' # times) => (pc \in RoutinePcs /\ pc' = "rl_backoff")
        /\ (pc \in SteadyPcs) => times' = times]_vars

C6_Witness ==
  /\ pc = "rs_sleep"
  /\ times = 3
  /\ Len(whoamiLog) = 4

\* C7 (as claimed): when the presence page says the identity is online the
\* routine reports DuplicateClient or TargetDetected, the wait that follows is
\* the tier of the attempt counter, and no connect was written.
C7_OnlineReportsConflict ==
  (page = "online" /\ pc = "rl_backoff") =>
     /\ ret \in Conflict
     /\ wait = Tier(times)
     /\ "connect" \notin sent

\* C7 (amended): when the presence page says the identity is online the
\* routine reports Online, the attempt counter is incremented, the wait that
\* follows is monitor.interval * 60 s whatever the attempt counter is, and
\* the routine has written no command at all (no connect).
C7_OnlineReportsOnline ==
  (page = "online") =>
     /\ ret = "Online"
     /\ times >= 1
     /\ sent = {"whoami", "http"}
     /\ pc \in {"rl_backoff", "rl_whoami", "done", "exit137"}
     /\ (pc = "rl_backoff" => wait = cfg.interval * 60)

C7_Witness ==
  /\ page = "online"
  /\ pc = "rl_backoff"
  /\ times = 3
  /\ wait = 120

\* C8: in a backoff wait with the cancellation value sent (before the wait or
\* during it) the only step of the main flow ends the run with Ok: nothing is
\* written, no error is recorded, and a finished run takes no further step;
\* the one other step is the second interrupt's process exit.
C8_CancelEndsBackoff ==
  [][/\ (pc = "rl_backoff" /\ cancel) =>
           \/ pc' = "done" /\ sent' = sent /\ err' = NoErr /\ times' = times
           \/ pc' = "exit137"
     /\ (pc = "done") => FALSE]_vars

C8_Witness ==
  /\ pc = "done"
  /\ wait = 1800
  /\ ret = "TargetDetected"
  /\ cancel

\* C9 (as claimed): in a tick whose client list holds a watched id while
\* need_exit is set, no play or pause is written and the tick ends only with
\* the disconnect written and the run stopped, whatever the companion does.
C9_ForcedExitAlways ==
  (clients # <<>> /\ cared_user(clients, MonitorIds) /\ cfg.need_exit) =>
     /\ sent \cap {"play", "pause"} = {}
     /\ \/ pc \in {"rs_status", "rs_exit_check", "exit137"}
        \/ pc \in {"done", "failed"} /\ "disconnect" \in sent

\* C10 (as claimed): in a tick that finds the own persistent id more than
\* once (and is not a forced exit) the disconnect is written and the tick goes
\* on to the compare step and the sleep; the run does not end because of that
\* disconnect.
C10_DuplicateGuardContinues ==
  /\ (/\ clients # <<>>
      /\ self_duplicate(clients, database_id)
      /\ ~(cared_user(clients, MonitorIds) /\ cfg.need_exit)
      /\ pc \in {"rs_compare", "rs_sleep"}) => "disconnect" \in sent
  /\ ~(pc = "failed" /\ err.at = "rs_dup_disconnect")

Toggles == {"play", "pause"}
Present == cared_user(clients, MonitorIds)
Compared == pc = "rs_sleep"
ToggleFailed == pc = "failed" /\ err.at = "rs_toggle"

\* C11: in every steady tick that has passed the compare step a companion
\* command has been written iff the companion's playing flag equals the
\* watched-id-present flag: pause when present and playing, play when absent
\* and paused, and nothing when the two flags differ; before the compare
\* step the tick has written no companion command, and the only tick that
\* does not pass the step is one whose flags are equal and whose command
\* could not be written.
C11_ToggleIffEqual ==
  /\ Compared =>
       sent \cap Toggles =
         IF status /\ Present THEN {"pause"}
         ELSE IF ~status /\ ~Present THEN {"play"}
         ELSE {}
  /\ pc = "rs_compare" => sent \cap Toggles = {}
  /\ ToggleFailed => (status = Present /\ sent \cap Toggles = {})

C11_Witness ==
  /\ pc = "rs_sleep"
  /\ status /\ Present
  /\ sent \cap Toggles = {"pause"}

\* C12: over consecutive ticks, a tick with the watched id present and the
\* companion paused writes no companion command; the next tick, with the
\* watched id absent, writes play; and in every following tick in which the
\* watched id stays absent and the companion reports playing (the state last
\* commanded) nothing more is written, so play is written exactly once.
C12_ScenarioPlayOnce == scen # "broken"

C12_Witness ==
  /\ scen = "played"
  /\ pc = "rs_sleep"
  /\ status /\ ~Present
  /\ sent \cap Toggles = {}

\* C13: with the cancellation value delivered, the loop head and the tick
\* sleep of the steady loop both end the run without an error and without
\* writing anything, so no tick is started after the current one (the only
\* other step is the second interrupt's process exit).
C13_SteadyCancelStops ==
  [][/\ (cancel /\ pc \in {"rs_head", "rs_sleep"}) =>
           \/ pc' = "done" /\ err' = NoErr /\ sent' \subseteq sent
           \/ pc' = "exit137"
     /\ (cancel /\ pc # "rs_clients") => pc' # "rs_clients"]_vars

C13_Witness ==
  /\ pc = "done"
  /\ cancel
  /\ err = NoErr
  /\ clients # <<>>
  /\ sent \cap Toggles = {"play"}

\* C14 (as claimed): a cancellation delivered during the backoff sleep, the
\* tick sleep or the initial connect wait ends that wait: the next step of
\* the main flow is the end of the run, not a further poll of the wait and
\* not its timeout.
WaitPcs == {"rl_backoff", "rs_sleep", "coo_wait", "coo_wait_sleep"}

C14_EveryWaitCancellable ==
  [][(cancel /\ pc \in WaitPcs) => pc' \in {"done", "exit137"}]_vars

\* C15: the first interrupt only delivers the cancellation value: it changes
\* nothing else, and the main flow goes on to its next cancellation point;
\* the process is killed (exit 137) by the second interrupt and by nothing
\* else, at once and from wherever the main flow is (also between a command
\* it has written and the answer), with nothing written.
C15_TwoInterrupts ==
  [][/\ (sigint = 0 /\ sigint' = 1) =>
           /\ cancel'
           /\ UNCHANGED <<pc, cfg, times, ret, wait, my, clients,
                          database_id, status, move_cid, sent, inflight,
                          whoamiLog, page, scen, err>>
     /\ cancel' # cancel => (sigint = 0 /\ sigint' = 1)
     /\ sigint' # sigint => sigint' = sigint + 1
     /\ (pc # "exit137" /\ pc' = "exit137") =>
           /\ sigint = 1 /\ sigint' = 2
           /\ UNCHANGED <<sent, inflight, err, times, whoamiLog>>
     /\ sigint' = 2 => pc' = "exit137"]_vars

C15_Witness ==
  /\ pc = "exit137"
  /\ sigint = 2
  /\ cancel
  /\ inflight
  /\ sent = {"whoami", "connect"}

\* C16 (as claimed): at most one request is in flight, that is, a command
\* is written only when the status line of every earlier command has been
\* read, also after a request that failed and whose error the caller
\* ignored; and the text decoded for a request is made of the peer's answer
\* to that request only.
C16_OneInFlight ==
  /\ Cardinality(unread) <= 1
  /\ io_res.kind = "ok" => io_res.from = {io_res.req}

\* C17 (as claimed): every request that has been written returns to its
\* caller, with a reply or with an error, whatever the peer does: sends
\* nothing, sends part of the answer and stalls, or closes the connection.
C17_RequestReturns == (io_pc = "read") ~> (io_pc # "read")

IsSpecial(c) == c \in {"\\", " ", "/"}
Specials(s) == Cardinality({i \in 1..Len(s) : IsSpecial(s[i])})

\* C18: for every string over backslash, space, slash and ordinary
\* characters, unescape(escape(s)) = s; and escape puts exactly one
\* backslash in front of each backslash, space (written s) and slash of the
\* input, so that a backslash it inserted is never escaped again.
C18_EscapeRoundTrip ==
  /\ op = "unescape" => out = str
  /\ op = "escape" =>
       /\ Len(out) = Len(str) + Specials(str)
       /\ Cardinality({i \in 1..Len(out) : out[i] = "\\"})
            = Specials(str)
              + Cardinality({i \in 1..Len(str) : str[i] = "\\"})
       /\ \A i \in 1..Len(out) : out[i] # " "

C18_Witness ==
  /\ op = "unescape"
  /\ str = <<" ", "\\", "/">>
  /\ out = str

IsStatus(line) == line.kind = "status"
FirstStatus(content, i) ==
  /\ i \in 1..Len(content)
  /\ IsStatus(content[i])
  /\ \A j \in 1..(i - 1) : content[j].kind = "data"

\* C19: the first status line of a reply decides: with id # 0 the result is
\* the error with that id and message, whatever data lines come before it
\* and whatever follows; with id = 0 the result is success with the whole
\* content as it was given.
C19_FirstStatusDecides ==
  op = "decode_status" =>
    \A i \in 1..Len(reply.body) :
      FirstStatus(reply.body, i) =>
        IF reply.body[i].id = 0
        THEN out = OkWith(reply)
        ELSE out = ErrWith(reply.body[i].id, reply.body[i].msg)

C19_Witness ==
  /\ op = "decode_status"
  /\ Len(reply.body) = 2
  /\ reply.body[1].kind = "data"
  /\ IsStatus(reply.body[2]) /\ reply.body[2].id = 512
  /\ out = ErrWith(512, "invalid clientID")

OneDataThenOk(text) ==
  /\ Len(text.body) = 2
  /\ text.body[1].kind = "data"
  /\ IsStatus(text.body[2]) /\ text.body[2].id = 0

\* C20 (as claimed): for a reply of one data line and a status line id=0,
\* row decoding gives one record per segment of the data line, in order.
C20_OneRecordPerSegment ==
  (op = "decode_status_with_result" /\ OneDataThenOk(reply)) =>
     /\ out.kind = "ok"
     /\ Len(out.value) = Len(reply.body[1].segs)
     /\ \A i \in 1..Len(reply.body[1].segs) :
          out.value[i].channel_name = reply.body[1].segs[i].channel_name

\* the reply of Scenario A: two channel segments without channel_order, a
\* status line id=0, lines ended by "\n" and "\r\n"
ScenarioA ==
  Text(<<DataLine(<<Without(Lobby, "channel_order"),
                    Without(AFK, "channel_order")>>),
         StatusLine(0, "ok")>>, "lf", FALSE, FALSE)

\* row decoding of the reply of Scenario A has ended in the parse error
C20_ScenarioAIsParseError ==
  /\ op = "decode_status_with_result"
  /\ reply = ScenarioA
  /\ out = ErrWith(-2, "parse")

OwnRecords == {i \in DOMAIN qclients : qclients[i].clid = qmy}
SameId(i) == {j \in DOMAIN qclients : qclients[j].dbid = qclients[i].dbid}

\* C21: check_self_duplicate answers true iff the client list holds a record
\* with the session's own client id and at least two records of the list
\* carry that record's persistent id; without an own record it answers
\* neither true nor false but the database-id error.
C21_DuplicateIffTwo ==
  op = "check_self_duplicate" =>
    /\ out = "true" <=> \E i \in OwnRecords : Cardinality(SameId(i)) >= 2
    /\ out = "false" <=> \E i \in OwnRecords : Cardinality(SameId(i)) = 1
    /\ out = "none" <=> OwnRecords = {}

C21_Witness ==
  /\ op = "check_self_duplicate"
  /\ out = "true"
  /\ Len(qclients) = 2
  /\ qclients[1].clid # qclients[2].clid

Queried == op = "query_operation_non_error"
HasStatus(text) ==
  \E i \in 1..Len(text.body) : text.body[i].kind \in {"status", "badstatus"}
HasData(text) == \E i \in 1..Len(text.body) : text.body[i].kind = "data"
SuccessReply(text) ==
  \E i \in 1..Len(text.body) : FirstStatus(text.body, i)
                                /\ text.body[i].id = 0

\* C22 (as claimed): the record-returning must-succeed query repeats the
\* whole write+read cycle once when decoding its reply fails with the parse
\* error, so such a call makes two writes; with any other outcome of the
\* first decode it makes one write.
C22_RetryOnceOnParseError ==
  (Queried /\ out.stage = "decode") =>
     out.writes = IF decode_status_with_result(reply) = ParseErr THEN 2 ELSE 1

\* the query answered with one segment whose cid is no number has returned
\* the parse error after one write
C22_ParseErrorAfterOneWrite ==
  /\ Queried
  /\ OneDataThenOk(reply)
  /\ reply.term = "lfcr" /\ reply.tail
  /\ reply.body[1].segs = <<[Lobby EXCEPT !.cid = <<"x">>]>>
  /\ out = [writes |-> 1, stage |-> "decode", result |-> ErrWith(-2, "parse")]

\* C23 (as claimed): a reply whose status line has id=0 and that holds no
\* data line comes back from the list queries as the error value
\* "Expect result but none found" (code -1): not as a list, not as a panic.
C23_NoDataLineIsError ==
  (Queried /\ SuccessReply(reply) /\ ~HasData(reply)) =>
     out.result.kind = "err" /\ out.result.code = -1

\* the query answered with the status line alone, as the console ends it,
\* has returned the parse error
C23_StatusOnlyIsParseError ==
  /\ Queried
  /\ reply = Text(<<StatusLine(0, "ok")>>, "lfcr", FALSE, TRUE)
  /\ out.stage = "decode"
  /\ out.result = ErrWith(-2, "parse")

Requested == op = "basic_operation"

DisconnectPoints == {"rs_exit_disconnect", "rs_dup_disconnect",
                     "coo_td_disconnect", "coo_dup_disconnect"}

\* C25 (as claimed): a disconnect that fails is only logged: it is not
\* written a second time and the run that issued it does not end in a
\* failure because of it.
C25_DisconnectFailureOnlyLogged ==
  ~(pc = "failed" /\ err.at \in DisconnectPoints)

\* C26 (as claimed): a read that brings no data within its time is "retry
\* later" for delay_read: no request returns to its caller because of it,
\* a request returns only with a text that holds a status line (or with the
\* transport's own read or write error).
C26_NoDataIsRetry == io_res.kind # "none_data"

Received == delay_s \o read_ret

\* C27 (as claimed): when a request returns on a connection the peer has
\* not closed, every chunk the client had read for it is part of the text
\* handed to the decoder; a read that times out loses nothing.
C27_NoChunkLost ==
  [][(io_pc = "read" /\ io_pc' = "idle" /\ closed = "open") =>
       \A i \in 1..Len(Received) :
          \E j \in 1..Len(io_res'.text) : io_res'.text[j] = Received[i]]_vars

\* C28: the unreachable!() branches of get_duration are never reached: at
\* every call (the start of every backoff wait) the outcome is not NotOnline
\* and the attempt counter is at least 1, so no run panics in get_duration.
C28_UnreachableNeverReached ==
  /\ ~(pc = "panicked" /\ err.at = "get_duration")
  /\ pc = "rl_backoff" =>
       /\ ret \in {"Online", "TargetDetected", "DuplicateClient"}
       /\ times >= 1
       /\ get_duration(cfg, times, ret) > 0

C28_Witness ==
  /\ pc = "rl_backoff"
  /\ ret = "Online"
  /\ times = 1
  /\ wait = 60

\* C29: the step by which the routine reports TargetDetected or
\* DuplicateClient is the successful answer to a disconnect it has written,
\* and the routine writes a disconnect only after the connect command of
\* that run; so in every backoff wait after such an outcome both commands
\* have been written, disconnect last, and none is left unanswered.
C29_ConflictMeansDisconnected ==
  [][/\ (pc # "rl_backoff" /\ pc' = "rl_backoff" /\ ret' \in Conflict) =>
           /\ pc \in {"coo_td_disconnect", "coo_dup_disconnect"}
           /\ inflight /\ ~inflight'
           /\ "disconnect" \in sent
           /\ sent' = sent
     /\ (pc \in RoutinePcs /\ "disconnect" \notin sent
                           /\ "disconnect" \in sent') =>
           /\ "connect" \in sent
           /\ pc' = pc /\ pc \in {"coo_td_disconnect", "coo_dup_disconnect"}
           /\ sent' = sent \cup {"disconnect"}
     /\ (pc' = "rl_backoff" /\ ret' \in Conflict) =>
           {"connect", "disconnect"} \subseteq sent']_vars

C29_Witness ==
  /\ pc = "rl_backoff"
  /\ ret = "TargetDetected"
  /\ cfg.web
  /\ {"connect", "disconnect"} \subseteq sent

====
